---- MODULE Spec2Model ----
(***************************************************************************)
(* Index-record assembly of the registry: get_index_data / index_metadata  *)
(* (src/src/index.rs).  One invocation looks a crate up by exact name,     *)
(* bulk-loads its versions and their dependencies, sorts, groups and maps  *)
(* them to index records, and serialises the records.                     *)
(*                                                                         *)
(* Strings are sequences of character codes (ASCII), so that Rust's        *)
(* byte-lexicographic String order, prefix/substring tests and the semver  *)
(* parse are computed rather than assumed.  Option<T> is a sequence of     *)
(* length 0 (None) or 1 (Some).                                            *)
(***************************************************************************)
EXTENDS Integers, Sequences, FiniteSets, TLC

VARIABLES
    crates_table,   \* table crates: set of [id, name]
    versions_table, \* table versions: set of [id, crate_id, num, created_at, features]
    deps_table,     \* table dependencies: set of dependency rows
    pc,             \* position of the current invocation of get_index_data
    name,           \* argument `name`
    krate,          \* Option<Crate>: the row found by the lookup
    vrows,          \* the version rows in the order the storage layer returned them
    versions,       \* local `versions` after sort_by_cached_key
    drows,          \* the (dependency, name) rows in the order the storage layer returned them
    crates,         \* local `crates`: the records index_metadata returned
    result,         \* the value get_index_data returned
    signals,        \* messages handed to sentry::capture_message by this invocation
    reads,          \* storage reads issued by this invocation, in order
    storage_fault   \* Option: the failure the storage layer answered a read of this invocation with

vars == <<crates_table, versions_table, deps_table, pc, name, krate, vrows,
          versions, drows, crates, result, signals, reads, storage_fault>>

db == <<crates_table, versions_table, deps_table>>

----------------------------------------------------------------------------
(* Bounds of the model *)

MaxVersions == 2
MaxDeps == 2
MaxTime == 2

----------------------------------------------------------------------------
(* Option and generic sequence helpers *)

None == <<>>
Some(x) == <<x>>
IsSome(o) == Len(o) = 1
Unwrap(o) == o[1]

Range(s) == { s[i] : i \in 1..Len(s) }

Count(s, x) == Cardinality({ i \in 1..Len(s) : s[i] = x })

\* All orders in which a storage read may return the rows of set S.
Orders(S) ==
    { s \in [1..Cardinality(S) -> S] : \A i, j \in 1..Cardinality(S) : i # j => s[i] # s[j] }

Min(a, b) == IF a < b THEN a ELSE b

----------------------------------------------------------------------------
(* Strings: sequences of character codes *)

\* Ord for str / String: lexicographic on the bytes.
StrLess(a, b) ==
    \E k \in 1..(Min(Len(a), Len(b)) + 1) :
        /\ \A i \in 1..(k - 1) : a[i] = b[i]
        /\ \/ (k = Len(a) + 1 /\ k <= Len(b))
           \/ (k <= Len(a) /\ k <= Len(b) /\ a[k] < b[k])

StartsWith(s, p) ==
    Len(p) <= Len(s) /\ \A i \in 1..Len(p) : s[i] = p[i]

Contains(s, p) ==
    \E k \in 0..(Len(s) - Len(p)) : \A i \in 1..Len(p) : s[k + i] = p[i]

Str_demo == <<100, 101, 109, 111>>                          \* "demo"
Str_left_pad == <<108, 101, 102, 116, 45, 112, 97, 100>>    \* "left-pad"
Str_orphan == <<111, 114, 112, 104, 97, 110>>               \* "orphan"
Str_ghost == <<103, 104, 111, 115, 116>>                    \* "ghost"
Str_Demo == <<68, 101, 109, 111>>                           \* "Demo"
Str_pad == <<112, 97, 100>>                                 \* "pad"
Str_req1 == <<94, 49>>                                      \* "^1"
Str_req2 == <<94, 50>>                                      \* "^2"
Str_0_2_0 == <<48, 46, 50, 46, 48>>                         \* "0.2.0"
Str_0_10_0 == <<48, 46, 49, 48, 46, 48>>                    \* "0.10.0"
Str_1_0_0 == <<49, 46, 48, 46, 48>>                         \* "1.0.0"
Str_1_0 == <<49, 46, 48>>                                   \* "1.0"   (no patch)
Str_beta == <<98, 101, 116, 97>>                            \* "beta"
Str_std == <<115, 116, 100>>                                \* "std"
Str_default == <<100, 101, 102, 97, 117, 108, 116>>         \* "default"
Str_serde == <<115, 101, 114, 100, 101>>                    \* "serde"
Str_derive == <<100, 101, 114, 105, 118, 101>>              \* "derive"
Str_dep_serde == <<100, 101, 112, 58, 115, 101, 114, 100, 101>>   \* "dep:serde"
Str_serde_q_derive == <<115, 101, 114, 100, 101, 63, 47, 100, 101, 114, 105, 118, 101>> \* "serde?/derive"
Str_dep_colon == <<100, 101, 112, 58>>                      \* "dep:"
Str_q_slash == <<63, 47>>                                   \* "?/"
Str_cfg_unix == <<99, 102, 103, 40, 117, 110, 105, 120, 41>>  \* "cfg(unix)"

----------------------------------------------------------------------------
(* semver::Version::parse(..).ok(), for strings without pre-release or     *)
(* build metadata (none is stored in this model): MAJOR.MINOR.PATCH, each  *)
(* a decimal number without a leading zero.                                *)

IsDigit(c) == c >= 48 /\ c <= 57

\* The positions of '.' in s.
DotPositions(s) == { i \in 1..Len(s) : s[i] = 46 }

IsNumericIdent(p) ==
    /\ Len(p) >= 1
    /\ \A i \in 1..Len(p) : IsDigit(p[i])
    /\ (Len(p) > 1 => p[1] # 48)

RECURSIVE DecimalValue(_)
DecimalValue(p) ==
    IF Len(p) = 0 THEN 0
    ELSE 10 * DecimalValue(SubSeq(p, 1, Len(p) - 1)) + (p[Len(p)] - 48)

SemverParse(s) ==
    LET dots == DotPositions(s) IN
    IF Cardinality(dots) # 2 THEN None
    ELSE
        LET d1 == CHOOSE i \in dots : \A j \in dots : i <= j
            d2 == CHOOSE i \in dots : \A j \in dots : j <= i
            major == SubSeq(s, 1, d1 - 1)
            minor == SubSeq(s, d1 + 1, d2 - 1)
            patch == SubSeq(s, d2 + 1, Len(s))
        IN  IF IsNumericIdent(major) /\ IsNumericIdent(minor) /\ IsNumericIdent(patch)
            THEN Some(<<DecimalValue(major), DecimalValue(minor), DecimalValue(patch)>>)
            ELSE None

\* Ord for semver::Version: major, then minor, then patch.
SemverLess(a, b) ==
    \/ a[1] < b[1]
    \/ (a[1] = b[1] /\ a[2] < b[2])
    \/ (a[1] = b[1] /\ a[2] = b[2] /\ a[3] < b[3])

\* Ord for Option<semver::Version>: None sorts before every Some.
OptSemverLess(a, b) ==
    \/ (~IsSome(a) /\ IsSome(b))
    \/ (IsSome(a) /\ IsSome(b) /\ SemverLess(Unwrap(a), Unwrap(b)))

----------------------------------------------------------------------------
(* Three-way comparisons (-1, 0, 1) used by the derived field-wise orders *)

CmpInt(a, b) == IF a = b THEN 0 ELSE IF a < b THEN -1 ELSE 1

CmpBool(a, b) == IF a = b THEN 0 ELSE IF b THEN -1 ELSE 1

CmpStr(a, b) == IF a = b THEN 0 ELSE IF StrLess(a, b) THEN -1 ELSE 1

\* Ord for Vec<String>: lexicographic on the elements.
CmpVecStr(a, b) ==
    LET diff == { i \in 1..Min(Len(a), Len(b)) : a[i] # b[i] } IN
    IF diff = {} THEN CmpInt(Len(a), Len(b))
    ELSE LET k == CHOOSE i \in diff : \A j \in diff : i <= j IN CmpStr(a[k], b[k])

\* Ord for Option<String>: None first.
CmpOptStr(a, b) ==
    IF a = b THEN 0
    ELSE IF ~IsSome(a) THEN -1
    ELSE IF ~IsSome(b) THEN 1
    ELSE CmpStr(Unwrap(a), Unwrap(b))

\* crates_io_index::DependencyKind in declaration order.
KindRank(k) == CASE k = "normal" -> 0 [] k = "build" -> 1 [] k = "dev" -> 2

CmpOptKind(a, b) ==
    IF a = b THEN 0
    ELSE IF ~IsSome(a) THEN -1
    ELSE IF ~IsSome(b) THEN 1
    ELSE CmpInt(KindRank(Unwrap(a)), KindRank(Unwrap(b)))

\* The first comparison of cs that is not "equal", 0 when all are.
FirstNonZero(cs) ==
    LET nz == { i \in 1..Len(cs) : cs[i] # 0 } IN
    IF nz = {} THEN 0 ELSE cs[CHOOSE i \in nz : \A j \in nz : i <= j]

----------------------------------------------------------------------------
(* Storage reads *)

\* Crate::by_exact_name(name).first(conn).optional(): the row whose name is
\* exactly `name`, if any.
by_exact_name(n) ==
    IF \E c \in crates_table : c.name = n
    THEN Some(CHOOSE c \in crates_table : c.name = n)
    ELSE None

\* krate.all_versions(): the version rows of this crate.
all_versions(k) == { v \in versions_table : v.crate_id = k.id }

\* Dependency::belonging_to(&versions).inner_join(crates::table)
\*     .select((dependencies::all_columns, crates::name)):
\* each dependency row of one of the versions, paired with the name of its
\* target crate.
belonging_to(vs) ==
    { [dep |-> d, name |-> c.name] :
        <<d, c>> \in { p \in deps_table \X crates_table :
                         /\ p[1].crate_id = p[2].id
                         /\ \E i \in 1..Len(vs) : vs[i].id = p[1].version_id } }

----------------------------------------------------------------------------
(* index_metadata: sorting the versions *)

\* Mutant: the secondary key is left out, the sort is by timestamp alone.
VersionSortKey_TimestampOnly(v) == <<v.created_at, None>>

\* The sort key of line 51: (created_at, semver::Version::parse(&num).ok()).
VersionSortKey(v) == <<v.created_at, SemverParse(v.num)>>

\* Ord for the key tuple (timestamp, Option<semver::Version>).
KeyLess(a, b) ==
    \/ a[1] < b[1]
    \/ (a[1] = b[1] /\ OptSemverLess(a[2], b[2]))

\* One insertion of a stable sort: x goes after every element not greater.
InsertVersion(sorted, x) ==
    LET k == Cardinality({ i \in 1..Len(sorted) :
                             ~KeyLess(VersionSortKey(x), VersionSortKey(sorted[i])) })
    IN  SubSeq(sorted, 1, k) \o <<x>> \o SubSeq(sorted, k + 1, Len(sorted))

RECURSIVE StableSortVersions(_)
StableSortVersions(s) ==
    IF Len(s) = 0 THEN <<>>
    ELSE InsertVersion(StableSortVersions(SubSeq(s, 1, Len(s) - 1)), s[Len(s)])

\* versions.sort_by_cached_key(..): a stable sort by VersionSortKey.
SortVersions(s) == StableSortVersions(s)

----------------------------------------------------------------------------
(* index_metadata: grouping and mapping the dependencies *)

\* deps.grouped_by(&versions): one list per parent, in the parents' order,
\* each holding the children of that parent in the order they were loaded.
grouped_by(children, parents) ==
    [ i \in 1..Len(parents) |->
        SelectSeq(children, LAMBDA c : c.dep.version_id = parents[i].id) ]

\* dep.kind.into(): the stored kind (0, 1, 2) as the index's DependencyKind.
KindInto(k) == CASE k = 0 -> "normal" [] k = 1 -> "build" [] k = 2 -> "dev"

\* Mutant: the two arms of the rename match are exchanged.
IndexDependency_Swapped(pair) ==
    LET dep == pair.dep
        renamed == IsSome(dep.explicit_name)
    IN  [ name             |-> pair.name,
          req              |-> dep.req,
          features         |-> dep.features,
          optional         |-> dep.optional,
          default_features |-> dep.default_features,
          kind             |-> Some(KindInto(dep.kind)),
          package          |-> IF renamed THEN Some(Unwrap(dep.explicit_name)) ELSE None,
          target           |-> dep.target ]

\* The closure of lines 66-87: one (Dependency, String) pair to one
\* crates_io_index::Dependency.
IndexDependency(pair) ==
    LET dep == pair.dep
        renamed == IsSome(dep.explicit_name)
    IN  [ name             |-> IF renamed THEN Unwrap(dep.explicit_name) ELSE pair.name,
          req              |-> dep.req,
          features         |-> dep.features,
          optional         |-> dep.optional,
          default_features |-> dep.default_features,
          kind             |-> Some(KindInto(dep.kind)),
          package          |-> IF renamed THEN Some(pair.name) ELSE None,
          target           |-> dep.target ]

\* Ord for crates_io_index::Dependency: field by field.
DepCmp(a, b) ==
    FirstNonZero(<< CmpStr(a.name, b.name),
                    CmpStr(a.req, b.req),
                    CmpVecStr(a.features, b.features),
                    CmpBool(a.optional, b.optional),
                    CmpBool(a.default_features, b.default_features),
                    CmpOptKind(a.kind, b.kind),
                    CmpOptStr(a.package, b.package),
                    CmpOptStr(a.target, b.target) >>)

InsertDep(sorted, x) ==
    LET k == Cardinality({ i \in 1..Len(sorted) : DepCmp(sorted[i], x) <= 0 })
    IN  SubSeq(sorted, 1, k) \o <<x>> \o SubSeq(sorted, k + 1, Len(sorted))

RECURSIVE StableSortDeps(_)
StableSortDeps(s) ==
    IF Len(s) = 0 THEN <<>>
    ELSE InsertDep(StableSortDeps(SubSeq(s, 1, Len(s) - 1)), s[Len(s)])

\* Mutant: the list is left in the order the rows were loaded.
SortDeps_Skipped(s) == s

\* deps.sort()
SortDeps(s) == StableSortDeps(s)

\* Lines 64-90: map the grouped pairs of one version, then sort.
VersionDeps(group) ==
    SortDeps([ i \in 1..Len(group) |-> IndexDependency(group[i]) ])

----------------------------------------------------------------------------
(* index_metadata: the feature split *)

EmptyMap == <<>>

\* version.features(): the stored raw feature mapping, or an error when the
\* stored value cannot be read as a mapping.
VersionFeatures(v) == v.features

\* Result::unwrap_or_default()
unwrap_or_default(r) == IF r.ok THEN r.value ELSE EmptyMap

\* An activation string of the extended syntax.
IsExtendedValue(s) == StartsWith(s, Str_dep_colon) \/ Contains(s, Str_q_slash)

UsesExtendedSyntax(vals) == \E i \in 1..Len(vals) : IsExtendedValue(vals[i])

Restrict(f, S) == [ k \in S |-> f[k] ]

\* split_features(features) -> (features, features2)
split_features(f) ==
    LET ext == { k \in DOMAIN f : UsesExtendedSyntax(f[k]) } IN
    << Restrict(f, DOMAIN f \ ext), Restrict(f, ext) >>

FormatVersion == 2

\* Mutant: the extended map and the tag are written whatever the split gave.
Features2AndV_AlwaysTagged(features2) == <<Some(features2), Some(FormatVersion)>>

\* Lines 95-99: (features2, v)
Features2AndV(features2) ==
    IF DOMAIN features2 = {} THEN <<None, None>>
    ELSE <<Some(features2), Some(FormatVersion)>>

----------------------------------------------------------------------------
(* index_metadata: the records *)

\* The closure of lines 63-115: one version and its group to one record.
IndexCrate(k, version, group) ==
    LET split == split_features(unwrap_or_default(VersionFeatures(version)))
        f2v == Features2AndV(split[2])
    IN  [ name         |-> k.name,
          vers         |-> version.num,
          cksum        |-> version.checksum,
          yanked       |-> Some(version.yanked),
          deps         |-> VersionDeps(group),
          features     |-> split[1],
          links        |-> version.links,
          rust_version |-> version.rust_version,
          features2    |-> f2v[1],
          v            |-> f2v[2] ]

\* Mutant: the pairs are grouped by the versions as loaded, before the sort,
\* and zipped with the sorted versions.
BuildRecords_GroupedByLoadOrder(k, sorted, pairs) ==
    LET groups == grouped_by(pairs, vrows) IN
    [ i \in 1..Len(sorted) |-> IndexCrate(k, sorted[i], groups[i]) ]

\* Lines 58-116: group the loaded pairs by the sorted versions, zip, map.
BuildRecords(k, sorted, pairs) ==
    LET groups == grouped_by(pairs, sorted) IN
    [ i \in 1..Len(sorted) |-> IndexCrate(k, sorted[i], groups[i]) ]

\* index_metadata for given storage answers: vr the version rows and dr the
\* (dependency, name) rows, each in the order the storage layer returned them.
index_metadata(k, vr, dr) == BuildRecords(k, SortVersions(vr), dr)

----------------------------------------------------------------------------
(* Stored data the model draws from *)

\* The crates table: "demo" is the crate under test, "left-pad" and "orphan"
\* are dependency targets; "orphan" never has a version.
CrateRows ==
    { [id |-> 1, name |-> Str_demo],
      [id |-> 2, name |-> Str_left_pad],
      [id |-> 3, name |-> Str_orphan] }

\* The names get_index_data is called with: "ghost" and "Demo" are not stored.
NamePool == { Str_demo, Str_left_pad, Str_orphan, Str_ghost, Str_Demo }

NumPool == { Str_0_2_0, Str_0_10_0, Str_1_0_0, Str_1_0, Str_beta }

OkFeatures(m) == [ok |-> TRUE, value |-> m]
UnreadableFeatures == [ok |-> FALSE, value |-> EmptyMap]

F_legacy == (Str_std :> <<>>) @@ (Str_default :> <<Str_std>>)
F_ext == (Str_serde :> <<Str_dep_serde>>)
F_mixed == (Str_std :> <<>>) @@ (Str_default :> <<Str_std>>)
           @@ (Str_derive :> <<Str_serde_q_derive>>)

FeaturePool ==
    { OkFeatures(EmptyMap), OkFeatures(F_legacy), OkFeatures(F_ext),
      OkFeatures(F_mixed), UnreadableFeatures }

VersionRow(id, crate_id, num, created_at, features) ==
    [ id |-> id, crate_id |-> crate_id, num |-> num, created_at |-> created_at,
      features |-> features, checksum |-> <<99, 48 + id>>, yanked |-> (id = 2),
      links |-> None, rust_version |-> None ]

\* "<i>.0.0"
NumOf(i) == <<48 + i, 46, 48, 46, 48>>

\* The one version of "left-pad", with one dependency of its own.
OtherVersion == VersionRow(9, 2, Str_1_0_0, 1, OkFeatures(EmptyMap))

BaseDep ==
    [ crate_id |-> 2, explicit_name |-> None, req |-> Str_req1, optional |-> FALSE,
      default_features |-> TRUE, features |-> <<>>, target |-> None, kind |-> 0 ]

DepShapes ==
    << BaseDep,
       [BaseDep EXCEPT !.explicit_name = Some(Str_pad)],
       [BaseDep EXCEPT !.crate_id = 3],
       [BaseDep EXCEPT !.req = Str_req2],
       [BaseDep EXCEPT !.kind = 2, !.target = Some(Str_cfg_unix)],
       [BaseDep EXCEPT !.optional = TRUE, !.features = <<Str_std>>] >>

DepRow(id, version_id, shape) ==
    [ id |-> id, version_id |-> version_id, crate_id |-> shape.crate_id,
      explicit_name |-> shape.explicit_name, req |-> shape.req,
      optional |-> shape.optional, default_features |-> shape.default_features,
      features |-> shape.features, target |-> shape.target, kind |-> shape.kind ]

OtherDep == DepRow(90, 9, DepShapes[3])

\* Every (owning version, shape) a dependency of versions 1 and 2 can have.
DepChoices == { <<v, s>> : v \in 1..2, s \in 1..Len(DepShapes) }

ChoiceRank(c) == (c[1] - 1) * Len(DepShapes) + c[2]

----------------------------------------------------------------------------
(* Initial states: the stored data, and no invocation yet *)

Pending == [kind |-> "Pending", str |-> <<>>, error |-> "", context |-> ""]

NoCall ==
    /\ crates_table = CrateRows
    /\ pc = "idle"
    /\ name = <<>>
    /\ krate = None
    /\ vrows = <<>>
    /\ versions = <<>>
    /\ drows = <<>>
    /\ crates = <<>>
    /\ result = Pending
    /\ signals = <<>>
    /\ reads = <<>>
    /\ storage_fault = None

\* "demo" has up to MaxVersions versions with any version strings (distinct,
\* as the table requires) and timestamps; version 1 has a renamed dependency.
InitVersions ==
    \E n \in 0..MaxVersions :
      \E nums \in [1..n -> NumPool], ts \in [1..n -> 1..MaxTime] :
        /\ \A i, j \in 1..n : i # j => nums[i] # nums[j]
        /\ versions_table =
             { VersionRow(i, 1, nums[i], ts[i], OkFeatures(F_legacy)) : i \in 1..n }
             \cup { OtherVersion }
        /\ deps_table =
             (IF n >= 1 THEN { DepRow(1, 1, DepShapes[2]) } ELSE {}) \cup { OtherDep }

\* "demo" has two versions, the one stored first being the newer, and up to
\* MaxDeps dependency rows of any shape on either of them.
InitDeps ==
    \E m \in 0..MaxDeps :
      \E ch \in [1..m -> DepChoices] :
        /\ \A i \in 1..(m - 1) : ChoiceRank(ch[i]) <= ChoiceRank(ch[i + 1])
        /\ versions_table =
             { VersionRow(1, 1, Str_1_0_0, 2, OkFeatures(EmptyMap)),
               VersionRow(2, 1, Str_0_2_0, 1, OkFeatures(EmptyMap)),
               OtherVersion }
        /\ deps_table =
             { DepRow(i, ch[i][1], DepShapes[ch[i][2]]) : i \in 1..m } \cup { OtherDep }

\* "demo" has up to MaxVersions versions created together, with any stored
\* feature mapping, readable or not.
InitFeatures ==
    \E n \in 1..MaxVersions :
      \E fs \in [1..n -> FeaturePool] :
        /\ versions_table =
             { VersionRow(i, 1, NumOf(i), 1, fs[i]) : i \in 1..n } \cup { OtherVersion }
        /\ deps_table = { OtherDep }

Init ==
    /\ NoCall
    /\ (InitVersions \/ InitDeps \/ InitFeatures)

----------------------------------------------------------------------------
(* get_index_data, one storage read per step *)

StorageErrors == { "DatabaseError", "BrokenConnection" }

Ok_None == [kind |-> "OkNone", str |-> <<>>, error |-> "", context |-> ""]
Ok_Some(s) == [kind |-> "OkSome", str |-> s, error |-> "", context |-> ""]
Err(e, c) == [kind |-> "Err", str |-> <<>>, error |-> e, context |-> c]

\* The message of line 25.
NoVersionsMessage(n) == [level |-> "Warning", text |-> "has no versions left", krate |-> n]

\* crates_io_index::write_crates: one line per record, in the order given.
write_crates(cs) == [ i \in 1..Len(cs) |-> [line |-> cs[i]] ]

Fault(read, e) == [read |-> read, error |-> e]

\* Line 12: the exact-name lookup, its `?` and the early return.
LookupCrate(n) ==
    /\ pc \in {"idle", "done"}
    /\ name' = n
    /\ reads' = <<"crates">>
    /\ vrows' = <<>>
    /\ versions' = <<>>
    /\ drows' = <<>>
    /\ crates' = <<>>
    /\ signals' = <<>>
    /\ \/ \E e \in StorageErrors :
            /\ storage_fault' = Some(Fault("crates", e))
            /\ krate' = None
            /\ result' = Err(e, "")
            /\ pc' = "done"
       \/ /\ storage_fault' = None
          /\ krate' = by_exact_name(n)
          /\ IF IsSome(by_exact_name(n))
             THEN result' = Pending /\ pc' = "versions"
             ELSE result' = Ok_None /\ pc' = "done"
    /\ UNCHANGED db

\* Mutant: a failed version load is taken for "no versions" and the call goes on.
LoadVersions_FailureAsEmpty ==
    /\ pc = "versions"
    /\ reads' = Append(reads, "versions")
    /\ \/ \E e \in StorageErrors :
            /\ storage_fault' = Some(Fault("versions", e))
            /\ vrows' = <<>>
            /\ versions' = <<>>
            /\ pc' = "deps"
            /\ UNCHANGED result
       \/ \E rows \in Orders(all_versions(Unwrap(krate))) :
            /\ vrows' = rows
            /\ versions' = SortVersions(rows)
            /\ pc' = "deps"
            /\ UNCHANGED <<result, storage_fault>>
    /\ UNCHANGED <<db, name, krate, drows, crates, signals>>

\* Lines 46-51: load the versions (in any row order) and sort them.
LoadVersions ==
    /\ pc = "versions"
    /\ reads' = Append(reads, "versions")
    /\ \/ \E e \in StorageErrors :
            /\ storage_fault' = Some(Fault("versions", e))
            /\ result' = Err(e, "Failed to gather index metadata")
            /\ pc' = "done"
            /\ UNCHANGED <<vrows, versions>>
       \/ \E rows \in Orders(all_versions(Unwrap(krate))) :
            /\ vrows' = rows
            /\ versions' = SortVersions(rows)
            /\ pc' = "deps"
            /\ UNCHANGED <<result, storage_fault>>
    /\ UNCHANGED <<db, name, krate, drows, crates, signals>>

\* Mutant: the dependencies are loaded with one read per version.
LoadDeps_PerVersion ==
    /\ pc = "deps"
    /\ reads' = reads \o [ i \in 1..Len(versions) |-> "dependencies" ]
    /\ \/ \E e \in StorageErrors :
            /\ storage_fault' = Some(Fault("dependencies", e))
            /\ result' = Err(e, "Failed to gather index metadata")
            /\ pc' = "done"
            /\ UNCHANGED <<drows, crates>>
       \/ \E rows \in Orders(belonging_to(versions)) :
            /\ drows' = rows
            /\ crates' = BuildRecords(Unwrap(krate), versions, rows)
            /\ pc' = "finish"
            /\ UNCHANGED <<result, storage_fault>>
    /\ UNCHANGED <<db, name, krate, vrows, versions, signals>>

\* Lines 53-117: load the dependencies (in any row order), group and map.
LoadDeps ==
    /\ pc = "deps"
    /\ reads' = Append(reads, "dependencies")
    /\ \/ \E e \in StorageErrors :
            /\ storage_fault' = Some(Fault("dependencies", e))
            /\ result' = Err(e, "Failed to gather index metadata")
            /\ pc' = "done"
            /\ UNCHANGED <<drows, crates>>
       \/ \E rows \in Orders(belonging_to(versions)) :
            /\ drows' = rows
            /\ crates' = BuildRecords(Unwrap(krate), versions, rows)
            /\ pc' = "finish"
            /\ UNCHANGED <<result, storage_fault>>
    /\ UNCHANGED <<db, name, krate, vrows, versions, signals>>

\* Mutant: no records are serialised like any other list, to an empty document.
ReportNoVersions_EmptyDocument ==
    /\ pc = "finish"
    /\ Len(crates) = 0
    /\ signals' = Append(signals, NoVersionsMessage(name))
    /\ result' = Ok_Some(write_crates(crates))
    /\ pc' = "done"
    /\ UNCHANGED <<db, name, krate, vrows, versions, drows, crates, reads, storage_fault>>

\* Mutant: 'not found' is returned without the warning.
ReportNoVersions_Silent ==
    /\ pc = "finish"
    /\ Len(crates) = 0
    /\ result' = Ok_None
    /\ pc' = "done"
    /\ UNCHANGED <<db, name, krate, vrows, versions, drows, crates, reads, signals,
                   storage_fault>>

\* Lines 24-29: no records for a crate that exists.
ReportNoVersions ==
    /\ pc = "finish"
    /\ Len(crates) = 0
    /\ signals' = Append(signals, NoVersionsMessage(name))
    /\ result' = Ok_None
    /\ pc' = "done"
    /\ UNCHANGED <<db, name, krate, vrows, versions, drows, crates, reads, storage_fault>>

\* Lines 31-38: serialise the records and decode the bytes.
Serialize ==
    /\ pc = "finish"
    /\ Len(crates) > 0
    /\ \/ result' = Err("WriteError", "Failed to serialize index metadata")
       \/ result' = Err("FromUtf8Error", "Failed to decode index metadata as utf8")
       \/ result' = Ok_Some(write_crates(crates))
    /\ pc' = "done"
    /\ UNCHANGED <<db, name, krate, vrows, versions, drows, crates, reads, signals,
                   storage_fault>>

Next ==
    \/ \E n \in NamePool : LookupCrate(n)
    \/ LoadVersions
    \/ LoadDeps
    \/ ReportNoVersions
    \/ Serialize

Spec == Init /\ [][Next]_vars

----------------------------------------------------------------------------
(* What the properties below read from a state *)

\* The invocation ended.
Done == pc = "done"

\* The stored crate of the name the invocation was called with, if any.
StoredCrate == { c \in crates_table : c.name = name }

\* The stored versions of that crate.
StoredVersions == { v \in versions_table : \E c \in StoredCrate : v.crate_id = c.id }

\* index_metadata returned its records (pc "finish"), or get_index_data went on
\* from there to its end.
RecordsBuilt ==
    \/ pc = "finish"
    \/ (Done /\ Len(reads) = 3 /\ storage_fault = None)

\* The stored version a record was made from (version strings are unique
\* within a crate).
VersionOf(rec) == CHOOSE v \in StoredVersions : v.num = rec.vers

\* The stored dependency rows owned by version v.
StoredDepsOf(v) == { d \in deps_table : d.version_id = v.id }

\* The registered name of the target crate of dependency row d.
TargetName(d) == (CHOOSE c \in crates_table : c.id = d.crate_id).name

EncodingErrors == { "WriteError", "FromUtf8Error" }

----------------------------------------------------------------------------
(* C1 *)

\* C1: when no storage read fails, an invocation for a crate that is stored
\* with zero versions and an invocation for a name that is not stored end with
\* the same value, Ok(None): not an error, and not an empty index document.
C1_NotFoundIsOkNone ==
    (Done /\ storage_fault = None /\ (StoredCrate = {} \/ StoredVersions = {}))
        => result = Ok_None

C1_Witness ==
    /\ Done
    /\ storage_fault = None
    /\ StoredCrate # {}
    /\ StoredVersions = {}
    /\ Len(reads) = 3
    /\ result = Ok_None

----------------------------------------------------------------------------
(* C2 *)

\* The invocation is for a stored crate without versions and no read failed.
ZeroVersionsOutcome ==
    /\ Done
    /\ storage_fault = None
    /\ StoredCrate # {}
    /\ StoredVersions = {}

\* C2: an invocation emits exactly one warning signal, naming the crate, when
\* the crate is stored and has zero versions, and the call still ends with
\* Ok(None); in every other outcome (name not stored, records returned,
\* storage failure, encoding failure) and at every earlier step it has
\* emitted no signal.
C2_ExactlyOneSignalIffZeroVersions ==
    IF ZeroVersionsOutcome
    THEN /\ signals = << NoVersionsMessage(name) >>
         /\ signals[1].level = "Warning"
         /\ signals[1].krate = name
         /\ result = Ok_None
    ELSE signals = <<>>

C2_Witness ==
    /\ ZeroVersionsOutcome
    /\ Len(signals) = 1
    /\ signals[1].krate = Str_demo

----------------------------------------------------------------------------
(* C3 *)

\* C3: the records index_metadata returns are as many as the stored versions
\* of the crate, each stored version has exactly one record, and the
\* dependency list of each record holds exactly the mapped dependency rows
\* owned by that record's version, each as often as it is stored (none for a
\* version without dependencies).
C3_OneRecordPerVersionDepsAligned ==
    RecordsBuilt =>
        /\ Len(crates) = Cardinality(StoredVersions)
        /\ \A v \in StoredVersions :
              Cardinality({ i \in 1..Len(crates) : crates[i].vers = v.num }) = 1
        /\ \A i \in 1..Len(crates) :
              /\ crates[i].vers \in { v.num : v \in StoredVersions }
              /\ LET rows == StoredDepsOf(VersionOf(crates[i]))
                     mapped(d) == IndexDependency([dep |-> d, name |-> TargetName(d)])
                 IN  /\ Len(crates[i].deps) = Cardinality(rows)
                     /\ \A d \in rows :
                          Count(crates[i].deps, mapped(d))
                            = Cardinality({ e \in rows : mapped(e) = mapped(d) })

\* Two versions that the sort reordered, the one with a dependency and the
\* other with none.
C3_Witness ==
    /\ RecordsBuilt
    /\ Len(crates) = 2
    /\ vrows # versions
    /\ \E i, j \in 1..2 : Len(crates[i].deps) >= 1 /\ Len(crates[j].deps) = 0

----------------------------------------------------------------------------
(* C4 *)

\* C4: the records are in non-decreasing order of the creation timestamp of
\* their versions; among records of equal timestamp no version that parses
\* as a semantic version comes before one that does not, and two that parse
\* are in non-decreasing semantic-version order; and an invocation never ends
\* with an error other than a storage or an encoding failure, whatever the
\* version strings.
C4_RecordsOrdered ==
    /\ RecordsBuilt =>
         \A i, j \in 1..Len(crates) :
            i < j =>
              LET a == VersionOf(crates[i])
                  b == VersionOf(crates[j])
                  pa == SemverParse(a.num)
                  pb == SemverParse(b.num)
              IN  /\ a.created_at <= b.created_at
                  /\ a.created_at = b.created_at =>
                       /\ ~(IsSome(pa) /\ ~IsSome(pb))
                       /\ (IsSome(pa) /\ IsSome(pb)) => ~SemverLess(Unwrap(pb), Unwrap(pa))
    /\ (Done /\ result.kind = "Err") =>
         \/ (IsSome(storage_fault) /\ result.error = Unwrap(storage_fault).error)
         \/ (RecordsBuilt /\ result.error \in EncodingErrors)

\* Records built from a newer-first answer of the storage layer in which an
\* unparsable and a parsable version share a timestamp.
C4_Witness ==
    /\ RecordsBuilt
    /\ result.kind = "OkSome"
    /\ Len(vrows) = 2
    /\ vrows[1].created_at = vrows[2].created_at
    /\ IsSome(SemverParse(vrows[1].num))
    /\ ~IsSome(SemverParse(vrows[2].num))
    /\ crates[1].vers = vrows[2].num

----------------------------------------------------------------------------
(* C5 *)

\* C5: the record sequence index_metadata returned is the one it returns for
\* every other order in which the storage layer may return the same version
\* rows and the same dependency rows.
C5_OrderIndependentOfRowOrder ==
    RecordsBuilt =>
        \A vr \in Orders(all_versions(Unwrap(krate))) :
            \A dr \in Orders(belonging_to(versions)) :
                index_metadata(Unwrap(krate), vr, dr) = crates

----------------------------------------------------------------------------
(* C6 *)

\* The output name and package field the rename rule asks for, for stored
\* dependency row d.
RenamePair(d) ==
    IF d.explicit_name # None
    THEN << Unwrap(d.explicit_name), Some(TargetName(d)) >>
    ELSE << TargetName(d), None >>

\* C6: in every record, the (name, package) pairs of the output dependencies
\* are exactly those of the version's stored dependency rows under the rename
\* rule: (R, Some(P)) for a row with explicit rename R and target crate P,
\* (P, None) for a row without a rename; the other attributes of the row go
\* with its pair.
C6_RenameRule ==
    RecordsBuilt =>
        \A i \in 1..Len(crates) :
            LET rows == StoredDepsOf(VersionOf(crates[i]))
                out == Range(crates[i].deps)
            IN  /\ \A d \in rows :
                      \E o \in out :
                         /\ << o.name, o.package >> = RenamePair(d)
                         /\ o.req = d.req
                         /\ o.optional = d.optional
                         /\ o.features = d.features
                         /\ o.target = d.target
                /\ \A o \in out :
                      \E d \in rows : << o.name, o.package >> = RenamePair(d)

\* A record with a renamed and a plain dependency on the same target crate.
C6_Witness ==
    /\ RecordsBuilt
    /\ \E i \in 1..Len(crates) :
          \E a, b \in Range(crates[i].deps) :
             /\ a.name = Str_pad
             /\ a.package = Some(Str_left_pad)
             /\ b.name = Str_left_pad
             /\ b.package = None

----------------------------------------------------------------------------
(* C7 *)

\* C7: for every record made from a version whose raw feature mapping can be
\* read: features2 and v are both absent or both present; they are absent
\* when no raw entry uses the extended syntax (an empty raw mapping gives an
\* empty legacy map); when some raw entry uses it, features2 is present and
\* non-empty and v is 2; and every raw feature is, with its values, in
\* exactly one of features and features2.
C7_FeatureSplit ==
    RecordsBuilt =>
        \A i \in 1..Len(crates) :
            LET ver == VersionOf(crates[i])
                raw == ver.features.value
                rec == crates[i]
                f2 == IF IsSome(rec.features2) THEN Unwrap(rec.features2) ELSE EmptyMap
                anyExt == \E k \in DOMAIN raw : UsesExtendedSyntax(raw[k])
            IN  ver.features.ok =>
                  /\ IsSome(rec.features2) <=> IsSome(rec.v)
                  /\ ~anyExt => (rec.features2 = None /\ rec.v = None)
                  /\ DOMAIN raw = {} => DOMAIN rec.features = {}
                  /\ anyExt => (IsSome(rec.features2) /\ DOMAIN f2 # {} /\ rec.v = Some(2))
                  /\ DOMAIN rec.features \cup DOMAIN f2 = DOMAIN raw
                  /\ DOMAIN rec.features \cap DOMAIN f2 = {}
                  /\ \A k \in DOMAIN rec.features : rec.features[k] = raw[k]
                  /\ \A k \in DOMAIN f2 : f2[k] = raw[k]

\* Records of which one has the extended map and the tag and another has
\* neither, the first made from a mapping with legacy and extended entries.
C7_Witness ==
    /\ RecordsBuilt
    /\ \E i, j \in 1..Len(crates) :
          /\ IsSome(crates[i].features2)
          /\ crates[i].v = Some(2)
          /\ DOMAIN crates[i].features # {}
          /\ crates[j].features2 = None
          /\ crates[j].v = None
          /\ VersionOf(crates[j]).features.ok

----------------------------------------------------------------------------
(* C8 *)

\* C8: the dependency list of every record is sorted by the field-wise order
\* DepCmp, under which only equal dependencies compare equal, and the lists
\* are the same for every order in which the storage layer may return the
\* dependency rows.
C8_DepsSortedTotalOrder ==
    RecordsBuilt =>
        /\ \A i \in 1..Len(crates) :
              \A a, b \in 1..Len(crates[i].deps) :
                 /\ a < b => DepCmp(crates[i].deps[a], crates[i].deps[b]) <= 0
                 /\ DepCmp(crates[i].deps[a], crates[i].deps[b]) = 0
                      => crates[i].deps[a] = crates[i].deps[b]
                 /\ DepCmp(crates[i].deps[a], crates[i].deps[b])
                      = 0 - DepCmp(crates[i].deps[b], crates[i].deps[a])
        /\ \A dr \in Orders(belonging_to(versions)) :
              LET other == BuildRecords(Unwrap(krate), versions, dr) IN
              \A i \in 1..Len(crates) : other[i].deps = crates[i].deps

\* A record with two different dependencies that the storage layer returned
\* in the opposite of their sorted order.
C8_Witness ==
    /\ RecordsBuilt
    /\ Len(drows) = 2
    /\ drows[1].dep.version_id = drows[2].dep.version_id
    /\ \E i \in 1..Len(crates) :
          /\ Len(crates[i].deps) = 2
          /\ crates[i].deps[1] = IndexDependency(drows[2])
          /\ crates[i].deps[2] = IndexDependency(drows[1])
          /\ crates[i].deps[1] # crates[i].deps[2]

----------------------------------------------------------------------------
(* C9 *)

\* C9: an invocation that built its records from a version whose stored raw
\* feature mapping cannot be read ends with a failure.
C9_NoErrorSwallowed ==
    (Done /\ RecordsBuilt /\ \E v \in StoredVersions : ~VersionFeatures(v).ok)
        => result.kind = "Err"

----------------------------------------------------------------------------
(* C10 *)

ReadOrder == << "crates", "versions", "dependencies" >>

\* C10: once the storage layer has answered a read of the invocation with a
\* failure, the invocation has ended, its result is that failure (and so
\* neither records nor 'not found'), it holds no records, it has emitted no
\* signal, and its reads are the reads up to the failed one, each issued
\* once.
C10_StorageFailureIsFatal ==
    IsSome(storage_fault) =>
        LET f == Unwrap(storage_fault) IN
        /\ Done
        /\ result.kind = "Err"
        /\ result.error = f.error
        /\ result.str = <<>>
        /\ crates = <<>>
        /\ signals = <<>>
        /\ Len(reads) <= Len(ReadOrder)
        /\ reads = SubSeq(ReadOrder, 1, Len(reads))
        /\ reads[Len(reads)] = f.read

\* The dependency load of a crate with versions failed.
C10_Witness ==
    /\ IsSome(storage_fault)
    /\ Unwrap(storage_fault).read = "dependencies"
    /\ Len(versions) >= 1
    /\ result = Err("BrokenConnection", "Failed to gather index metadata")

----------------------------------------------------------------------------
(* C11 *)

\* C11 as stated: an invocation that met no storage failure has performed
\* two or three storage reads when it ends, whatever its outcome (name not
\* stored, zero versions, records returned).
C11_TwoToThreeReads ==
    (Done /\ storage_fault = None) => (Len(reads) = 2 \/ Len(reads) = 3)

\* C11 amended: the reads of an invocation are at every step a prefix of
\* (crates, versions, dependencies), so each bulk read is issued at most once
\* and never once per version or per dependency; an invocation that met no
\* storage failure ends after one read (the lookup) when the name is not
\* stored, and after all three when the crate is stored, with zero versions
\* or with any number of versions and dependencies.
C11_BulkReadsOnly ==
    /\ Len(reads) <= Len(ReadOrder)
    /\ reads = SubSeq(ReadOrder, 1, Len(reads))
    /\ (Done /\ storage_fault = None) =>
         IF StoredCrate = {} THEN reads = << "crates" >> ELSE reads = ReadOrder

\* An invocation that returned the records of two versions with two
\* dependency rows after three reads.
C11_Witness ==
    /\ Done
    /\ result.kind = "OkSome"
    /\ Len(versions) = 2
    /\ Len(drows) = 2
    /\ reads = ReadOrder

====
